---- MODULE Spec2Model ----
(***************************************************************************)
(* Model of parakeet_service/batchworker.py: the micro-batch worker that   *)
(* drains transcription_queue, runs the ASR model over each batch and      *)
(* publishes the texts into `results`.                                     *)
(*                                                                         *)
(* Time is a discrete clock `now` (one tick = one millisecond of           *)
(* time.monotonic()).  The worker is one asyncio task: it can be           *)
(* interleaved with producers, readers and the clock only where it is      *)
(* suspended at an await, and it can be cancelled only there.  The steps   *)
(* between two awaits are split over several actions for readability;      *)
(* cancel is disabled in the positions that are not awaits.  The timer of  *)
(* wait_for takes effect at its expiry: the delay of the event loop        *)
(* between an expiry and the resumption of the task is not modelled.       *)
(*                                                                         *)
(* File names: <<"path", p>> is a path string handed in by a producer,     *)
(* <<"tmp", k>> is the k-th name made by tempfile.NamedTemporaryFile       *)
(* (names are taken fresh; a random name colliding with an earlier one is  *)
(* not modelled).                                                          *)
(* The text produced by model.transcribe for the item with identity i is   *)
(* written i, so that a stored text can be traced to the item it is for.   *)
(***************************************************************************)
EXTENDS Integers, Sequences, FiniteSets, TLC

\* ---------------------------------------------------------------- bounds
MaxItems == 3        \* number of put() calls in a behaviour
MaxTime == 1         \* last clock value
NumPaths == 1        \* distinct path strings producers use
MaxBatchArg == 2     \* max_batch is drawn from 1..MaxBatchArg
MaxWindowArg == 1    \* batch_ms is drawn from 1..MaxWindowArg

PauseSpeechMs == 5000   \* scenario: speech before and after the pause
PauseSilenceMs == 400   \* scenario: the pause
LongSpeechMs == 9000    \* scenario: speech without a pause
MaxRuns == 3         \* runs of equal windows in the file of a repeated run
MaxOthers == 2       \* windows of the second stream next to the first
MaxCalls == 4        \* feed calls in one behaviour
ScenarioItems == 6   \* items enqueued in the burst scenario
ScenarioSpan == 5    \* the burst is enqueued within this many ms
MaxVerbose == 4      \* most -v flags on the command line
MaxChunks == 2       \* chunks of 8192 bytes read from one upload
MaxInputWindows == 64   \* longest file a striped chunker run reads, in windows

Paths == 1..NumPaths

\* ---------------------------------------------------------------- constants
DefaultMaxBatch == 4     \* batch_worker(max_batch=4)
DefaultBatchMs == 15     \* batch_worker(batch_ms=15.0)

SAMPLE_RATE == 16000     \* streaming_vad.py, chunker.py
WINDOW_SAMPLES == 512    \* one VAD window
WINDOW_MS == 32          \* speech_ms += 32
MIN_SILENCE_MS == 250    \* streaming_vad.py
MAX_SPEECH_MS == 8000    \* streaming_vad.py
TRAIL_SIL_MS == 300      \* chunker.py
MAX_CHUNK_MS == 60000    \* chunker.py
MAX_SEC == 70            \* chunker.py
STRIPE_SEC == 2          \* chunker.py
MinFrameMs == 20         \* "Feed successive 20-40 ms PCM frames"
MaxFrameMs == 40

VARIABLES
    max_batch,      \* argument of batch_worker
    batch_ms,       \* argument of batch_worker
    now,            \* time.monotonic(), in ms
    transcription_queue,   \* asyncio.Queue: sequence of [id, blob]
    unfinished,     \* asyncio.Queue._unfinished_tasks
    results,        \* dict path -> text
    disk,           \* names of the files that exist
    nextTmp,        \* index of the next temporary file name
    pc,             \* position of the worker task
    batch,          \* local `batch`: sequence of [id, path]
    deadline,       \* local `deadline`
    waitUntil,      \* expiry of the timer armed by asyncio.wait_for
    outs,           \* local `outs`
    calls,          \* arguments of the model.transcribe calls made for `batch`
    notifies,       \* number of condition.notify_all() calls so far
    nextId,         \* identity given to the next item put on the queue
    status,         \* per item: "queued", "batched", "done" or "dropped"
    dispatched,     \* log: the batches handed to inference, in order
    delivered,      \* per item: number of reads that obtained its text
    seg,            \* the segmenter that runs: feed or one of the two chunkers
    vad,            \* the VADIterator: triggered, temp_end, samples since temp_end
    buffer,         \* self.buffer / current_chunk / buf, in windows
    speech_ms,      \* self.speech_ms / speech_ms
    voice_event,    \* what the VAD returned for the last window
    flushed,        \* windows of the segment the last step flushed, 0 if none
    mid,            \* the VAD was inside a speech region after the last window
    vpc,            \* "loop" in the window loop, "returned" after the final flush
    fed,            \* samples passed to feed so far
    appended,       \* samples feed classified and appended to the buffer so far
    out,            \* number of paths the last feed call returned
    ncalls,         \* feed calls made
    emitted,        \* lengths (windows) of the segments feed returned so far
    script,         \* the stream of a scenario: its kind and its windows
    streams,        \* per StreamingVAD instance: its iterator, buffer, speech_ms
    hidden,         \* per VAD model object: the streams whose windows are in
                    \* its recurrent state since its last reset_states()
    others,         \* windows the second instance has processed
    input,          \* the file of the repeated chunker run, as runs of windows
    first,          \* chunk lengths (windows) the first run returned
    second,         \* chunk lengths the second run returned
    left,           \* what the last finished run left behind
    phase,          \* "first", "between", "other", "done", "done_after_other"
    reader,         \* the file a chunker reads: its length, the position of
                    \* the next read, the stripe in memory, the loop index
    bufr,           \* the file samples in buf / current_chunk, as ranges
    chunks,         \* the chunks written so far laid end to end, as ranges
    app_state,      \* app.state: model_loaded, model_error, asr_model
    life,           \* position of lifespan(app)
    req,            \* the request transcribe_audio works on
    files,          \* tmp_path and mp3_tmp_path of that request
    logging,        \* the logging module: config._logging_configured, the
                    \* root logger, the third-party loggers
    cli             \* the process started from the command line

vadVars == <<seg, vad, buffer, speech_ms, voice_event, flushed, mid, vpc>>

schedVars == <<max_batch, batch_ms, now, transcription_queue, unfinished,
               results, disk, nextTmp, pc, batch, deadline, waitUntil, outs,
               calls, notifies, nextId, status, dispatched, delivered>>

feedVars == <<fed, appended, out, ncalls, emitted, script>>

sharedVars == <<streams, hidden, others>>

runVars == <<input, first, second, left, phase>>

stripeVars == <<reader, bufr, chunks>>

requestVars == <<app_state, life, req, files>>

logVars == <<logging, cli>>

moreVars == <<stripeVars, requestVars, logVars>>

restVars == <<feedVars, sharedVars, runVars, moreVars>>

vars == <<schedVars, vadVars, restVars>>

\* ---------------------------------------------------------------- helpers
Min(a, b) == IF a < b THEN a ELSE b

Ids(s) == {s[i].id : i \in 1..Len(s)}

PathsOf(s) == {s[i].path : i \in 1..Len(s)}

IdSeq(s) == [i \in 1..Len(s) |-> s[i].id]

PathSeq(s) == [i \in 1..Len(s) |-> s[i].path]

EmptyDict == [x \in {} |-> 0]

\* dict assignment d[k] = v
DictSet(d, k, v) == [x \in DOMAIN d \cup {k} |-> IF x = k THEN v ELSE d[x]]

\* dict.pop(k)
DictPop(d, k) == [x \in DOMAIN d \ {k} |-> d[x]]

\* ---------------------------------------------------------------- _as_path
\* the path handed to the model for a blob; n is the next temp-file index
as_path(blob, n) == IF blob[1] = "str" THEN <<"path", blob[2]>> ELSE <<"tmp", n>>

\* the files that exist after _as_path(blob)
as_path_disk(blob, n, d) == IF blob[1] = "str" THEN d ELSE d \cup {<<"tmp", n>>}

as_path_next(blob, n) == IF blob[1] = "str" THEN n ELSE n + 1

\* ---------------------------------------------------------------- Init
\* the module state after import and the worker at its first await
Started ==
    /\ now = 0
    /\ transcription_queue = <<>>
    /\ unfinished = 0
    /\ results = EmptyDict
    /\ disk = {}
    /\ nextTmp = 1
    /\ pc = "get_first"
    /\ batch = <<>>
    /\ deadline = 0
    /\ waitUntil = 0
    /\ outs = <<>>
    /\ calls = <<>>
    /\ notifies = 0
    /\ nextId = 1
    /\ status = <<>>
    /\ dispatched = <<>>
    /\ delivered = <<>>

\* VADIterator.reset_states()
reset_states == [triggered |-> FALSE, temp_end |-> FALSE, since |-> 0]

\* StreamingVAD.__init__, and the locals of a chunker before its loop
VadIdle ==
    /\ vad = reset_states
    /\ buffer = 0
    /\ speech_ms = 0
    /\ voice_event = "none"
    /\ flushed = 0
    /\ mid = FALSE
    /\ vpc = "loop"

\* no feed call was made
FeedIdle ==
    /\ fed = 0
    /\ appended = 0
    /\ out = 0
    /\ ncalls = 0
    /\ emitted = <<>>
    /\ script = [kind |-> "none", wins |-> <<>>]

Streams == {1, 2}

\* line 6, lines 28-29: every StreamingVAD passes the one module-level
\* vad_model to its VADIterator
model_of(s) == "vad_model"

Models == {model_of(s) : s \in Streams}

\* a StreamingVAD after __init__
NewStream == [vad |-> reset_states, buffer |-> 0, speech_ms |-> 0,
              voice_event |-> "none", flushed |-> 0, mid |-> FALSE]

\* two instances were constructed (VADIterator.__init__ resets the model)
SharedIdle ==
    /\ streams = [s \in Streams |-> NewStream]
    /\ hidden = [m \in Models |-> {}]
    /\ others = 0

\* no chunker run was made
RunIdle ==
    /\ input = <<>>
    /\ first = <<>>
    /\ second = <<>>
    /\ left = NewStream
    /\ phase = "first"

\* no file is open
StripeIdle ==
    /\ reader = [len |-> 0, pos |-> 0, from |-> 0, n |-> 0, start |-> 0]
    /\ bufr = <<>>
    /\ chunks = <<>>

\* an attribute of app.state that was never set, or was deleted
Absent == "absent"

\* no request is being served
NoRequest == [pc |-> "idle", mp3 |-> FALSE, nread |-> 0, error |-> "none",
              status |-> 0, at |-> "none", called |-> FALSE,
              seen |-> [model_loaded |-> Absent, asr_model |-> Absent]]

NoFiles == [tmp |-> FALSE, mp3 |-> "None"]

\* the application object before lifespan(app) has run
RequestIdle ==
    /\ app_state = [model_loaded |-> Absent, model_error |-> Absent,
                    asr_model |-> Absent]
    /\ life = "created"
    /\ req = NoRequest
    /\ files = NoFiles

\* the interpreter before parakeet_service.config is imported: the root
\* logger of the logging module has its default level and no handler
LogIdle ==
    /\ logging = [configured |-> FALSE, root |-> "WARNING", handlers |-> 0,
              third_party |-> "NOTSET"]
    /\ cli = [pc |-> "start", env |-> "unset", verbose |-> 0, log_level |-> "none"]

MoreIdle == StripeIdle /\ RequestIdle /\ LogIdle

RestIdle ==
    /\ FeedIdle
    /\ SharedIdle
    /\ RunIdle
    /\ MoreIdle

Init ==
    /\ max_batch \in 1..MaxBatchArg
    /\ batch_ms \in 1..MaxWindowArg
    /\ Started
    /\ seg = "feed"
    /\ VadIdle
    /\ RestIdle

\* ---------------------------------------------------------------- environment
\* time passes; an item that is in the queue while the worker waits for one
\* inside wait_for is handed over before the clock moves on
Tick ==
    /\ now < MaxTime
    /\ ~(pc = "wait" /\ now < waitUntil /\ transcription_queue # <<>>)
    /\ now' = now + 1
    /\ UNCHANGED <<vadVars, restVars, max_batch, batch_ms, transcription_queue, unfinished, results,
                   disk, nextTmp, pc, batch, deadline, waitUntil, outs, calls,
                   notifies, nextId, status, dispatched, delivered>>

\* asyncio.Queue.put(item): append, count one more unfinished task
Put(blob, d, limit) ==
    /\ nextId <= limit
    /\ transcription_queue' = Append(transcription_queue, [id |-> nextId, blob |-> blob])
    /\ unfinished' = unfinished + 1
    /\ status' = [i \in 1..nextId |-> IF i = nextId THEN "queued" ELSE status[i]]
    /\ delivered' = [i \in 1..nextId |-> IF i = nextId THEN 0 ELSE delivered[i]]
    /\ nextId' = nextId + 1
    /\ disk' = d
    /\ UNCHANGED <<vadVars, restVars, max_batch, batch_ms, now, results, nextTmp, pc, batch,
                   deadline, waitUntil, outs, calls, notifies, dispatched>>

Enqueue(blob, d) == Put(blob, d, MaxItems)

\* a producer writes a file and submits its path
PutPath == \E p \in Paths :
    Enqueue(<<"str", p>>, disk \cup {<<"path", p>>})

\* a producer submits an in-memory payload
PutBytes == Enqueue(<<"bytes", 0>>, disk)

\* ---------------------------------------------------------------- batch_worker
SetStatus(st, ids, v) == [i \in DOMAIN st |-> IF i \in ids THEN v ELSE st[i]]

collect_more_off_by_one(b, mb) == Len(b) <= mb

\* line 38: the gathering loop goes on while the batch is not full
collect_more(b, mb) == Len(b) < mb

\* every wait gets the whole window again
timeout_restarts(d, t) == batch_ms

\* line 39: time left until the deadline
timeout(d, t) == d - t

\* the window is left out of the deadline
first_deadline_no_window(t, ms) == t

\* line 37: the deadline of a batch whose first item was dequeued at time t
first_deadline(t, ms) == t + ms

batch_prepend(b, it, n) == <<[id |-> it.id, path |-> as_path(it.blob, n)]>> \o b

\* the batch after line 34 / line 44: the dequeued item goes to the end
batch_append(b, it, n) == Append(b, [id |-> it.id, path |-> as_path(it.blob, n)])

\* asyncio.Queue.get(): the item handed out, and the queue left behind
queue_get(q) == Head(q)

\* the item behind the one handed out leaves the queue with it
queue_rest_skips(q) == IF Len(q) > 1 THEN Tail(Tail(q)) ELSE Tail(q)

queue_rest(q) == Tail(q)

\* lines 33-37: the first item arrives; it opens the batch and fixes the deadline
GetFirst ==
    /\ pc = "get_first"
    /\ transcription_queue # <<>>
    /\ LET it == queue_get(transcription_queue) IN
        /\ batch' = batch_append(<<>>, it, nextTmp)
        /\ disk' = as_path_disk(it.blob, nextTmp, disk)
        /\ nextTmp' = as_path_next(it.blob, nextTmp)
        /\ status' = SetStatus(status, {it.id}, "batched")
    /\ transcription_queue' = queue_rest(transcription_queue)
    /\ deadline' = first_deadline(now, batch_ms)
    /\ calls' = <<>>
    /\ pc' = "collect"
    /\ UNCHANGED <<vadVars, restVars, max_batch, batch_ms, now, unfinished, results, waitUntil,
                   outs, notifies, nextId, dispatched, delivered>>

\* lines 38-43: loop test; either leave the loop or arm wait_for(get(), timeout)
CollectCheck ==
    /\ pc = "collect"
    /\ IF collect_more(batch, max_batch) /\ timeout(deadline, now) > 0
       THEN /\ pc' = "wait"
            /\ waitUntil' = now + timeout(deadline, now)
       ELSE /\ pc' = "dispatch"
            /\ UNCHANGED waitUntil
    /\ UNCHANGED <<vadVars, restVars, max_batch, batch_ms, now, transcription_queue, unfinished,
                   results, disk, nextTmp, batch, deadline, outs, calls,
                   notifies, nextId, status, dispatched, delivered>>

\* lines 43-44: an item arrives before the timer expires and is appended
GetNext ==
    /\ pc = "wait"
    /\ now < waitUntil
    /\ transcription_queue # <<>>
    /\ LET it == queue_get(transcription_queue) IN
        /\ batch' = batch_append(batch, it, nextTmp)
        /\ disk' = as_path_disk(it.blob, nextTmp, disk)
        /\ nextTmp' = as_path_next(it.blob, nextTmp)
        /\ status' = SetStatus(status, {it.id}, "batched")
    /\ transcription_queue' = queue_rest(transcription_queue)
    /\ pc' = "collect"
    /\ UNCHANGED <<vadVars, restVars, max_batch, batch_ms, now, unfinished, results, deadline,
                   waitUntil, outs, calls, notifies, nextId, dispatched, delivered>>

\* lines 45-46: the timer of wait_for expires, asyncio.TimeoutError, break
TimeoutFires ==
    /\ pc = "wait"
    /\ now >= waitUntil
    /\ pc' = "dispatch"
    /\ UNCHANGED <<vadVars, restVars, max_batch, batch_ms, now, transcription_queue, unfinished,
                   results, disk, nextTmp, batch, deadline, waitUntil, outs,
                   calls, notifies, nextId, status, dispatched, delivered>>

\* only the first file of the batch is transcribed
infer_calls_first_only(b, failAt) == <<b[1].path>>

\* lines 55-57: the arguments of the model.transcribe calls made for batch b
\* when the call number failAt raises (failAt = 0: no call raises)
infer_calls(b, failAt) ==
    [i \in 1..(IF failAt = 0 THEN Len(b) ELSE failAt) |-> b[i].path]

\* lines 54-57: outs after a loop in which no call raised
infer_outs(b) == [i \in 1..Len(b) |-> b[i].id]

\* the texts obtained before the failing call are stored all the same
infer_results_partial(r, b, failAt) ==
    [x \in DOMAIN r \cup {b[i].path : i \in 1..(failAt - 1)} |->
        IF \E i \in 1..(failAt - 1) : b[i].path = x
        THEN b[CHOOSE i \in 1..(failAt - 1) : b[i].path = x].id
        ELSE r[x]]

\* lines 54-62: the loop only appends to the local outs; when the call number
\* failAt raises, outs is abandoned and results stays as it was
infer_results(r, b, failAt) == r

\* the handler ends the task
after_failure_ends == "cancelled"

\* line 62: `continue`, back to the await of line 33
after_failure == "get_first"

task_done_failed_once(b, u) == u - 1

\* lines 60-61: the unfinished-task count after the failure path
task_done_failed(b, u) == u - Len(b)

\* inference is handed off and the worker goes back to the queue at once
Dispatch_in_background ==
    /\ pc = "dispatch"
    /\ calls' = infer_calls(batch, 0)
    /\ dispatched' = Append(dispatched, [ids |-> IdSeq(batch),
                                          paths |-> PathSeq(batch),
                                          ok |-> TRUE])
    /\ outs' = infer_outs(batch)
    /\ pc' = "get_first"
    /\ UNCHANGED <<vadVars, restVars, max_batch, batch_ms, now, transcription_queue, unfinished,
                   status, results, disk, nextTmp, batch, deadline, waitUntil,
                   notifies, nextId, delivered>>

\* lines 50-62: inference over the batch, one call per file; on an exception
\* the batch is logged, task_done() is called per item and the loop continues
Dispatch ==
    /\ pc = "dispatch"
    /\ \E failAt \in 0..Len(batch) :
        /\ calls' = infer_calls(batch, failAt)
        /\ dispatched' = Append(dispatched, [ids |-> IdSeq(batch),
                                              paths |-> PathSeq(batch),
                                              ok |-> failAt = 0])
        /\ IF failAt = 0
           THEN /\ outs' = infer_outs(batch)
                /\ pc' = "publish"
                /\ UNCHANGED <<unfinished, status, results>>
           ELSE /\ outs' = <<>>
                /\ results' = infer_results(results, batch, failAt)
                /\ unfinished' = task_done_failed(batch, unfinished)
                /\ status' = SetStatus(status, Ids(batch), "dropped")
                /\ pc' = after_failure
    /\ UNCHANGED <<vadVars, restVars, max_batch, batch_ms, now, transcription_queue, disk,
                   nextTmp, batch, deadline, waitUntil, notifies, nextId, delivered>>

\* nested loops in place of zip: every key ends with the last text
store_results_nested(r, b, o, i) ==
    [x \in DOMAIN r \cup PathsOf(b) |-> IF x \in PathsOf(b) THEN o[Len(o)] ELSE r[x]]

\* lines 65-67: results[p] = text for the pairs of zip(batch, outs), in order
RECURSIVE store_results(_, _, _, _)
store_results(r, b, o, i) ==
    IF i > Min(Len(b), Len(o)) THEN r
    ELSE store_results(DictSet(r, b[i].path, o[i]), b, o, i + 1)

\* line 68: one task_done() per pair of zip(batch, outs)
task_done_stored(b, o, u) == u - Min(Len(b), Len(o))

\* lines 65-68: store the texts and mark the items done
Publish ==
    /\ pc = "publish"
    /\ results' = store_results(results, batch, outs, 1)
    /\ unfinished' = task_done_stored(batch, outs, unfinished)
    /\ status' = SetStatus(status, Ids(batch), "done")
    /\ pc' = "notify"
    /\ UNCHANGED <<vadVars, restVars, max_batch, batch_ms, now, transcription_queue, disk, nextTmp,
                   batch, deadline, waitUntil, outs, calls, notifies, nextId,
                   dispatched, delivered>>

\* only the files _as_path made are removed
cleanup_tmp_only(d, b) == d \ {p \in PathsOf(b) : p[1] = "tmp"}

\* lines 73-75: unlink every path of the batch, a missing file is fine
cleanup(d, b) == d \ PathsOf(b)

notify_all_per_item(n, b) == n + Len(b)

\* lines 69-70: one notify_all() after the loop that stored the results
notify_all(n, b) == n + 1

\* lines 69-75: take the condition, notify_all(), then remove the files
Notify ==
    /\ pc = "notify"
    /\ notifies' = notify_all(notifies, batch)
    /\ disk' = cleanup(disk, batch)
    /\ pc' = "get_first"
    /\ UNCHANGED <<vadVars, restVars, max_batch, batch_ms, now, transcription_queue, unfinished,
                   results, nextTmp, batch, deadline, waitUntil, outs, calls,
                   nextId, status, dispatched, delivered>>

\* the awaits of batch_worker: line 33, line 43 and line 69
AwaitPoints == {"get_first", "wait", "notify"}

\* Task.cancel(): CancelledError is raised at the await the task is suspended
\* at; batch_worker has no handler for it, the task ends there
Cancel ==
    /\ pc \in AwaitPoints
    /\ pc' = "cancelled"
    /\ UNCHANGED <<vadVars, restVars, max_batch, batch_ms, now, transcription_queue, unfinished,
                   results, disk, nextTmp, batch, deadline, waitUntil, outs,
                   calls, notifies, nextId, status, dispatched, delivered>>

\* ---------------------------------------------------------------- reader
\* a consumer of the result channel reads the entry of key k and removes it
read_results(r, k) == DictPop(r, k)

Read == \E k \in DOMAIN results :
    /\ delivered' = [delivered EXCEPT ![results[k]] = @ + 1]
    /\ results' = read_results(results, k)
    /\ UNCHANGED <<vadVars, restVars, max_batch, batch_ms, now, transcription_queue, unfinished,
                   disk, nextTmp, pc, batch, deadline, waitUntil, outs, calls,
                   notifies, nextId, status, dispatched>>

\* ---------------------------------------------------------------- specification
Next ==
    \/ Tick
    \/ PutPath
    \/ PutBytes
    \/ GetFirst
    \/ CollectCheck
    \/ GetNext
    \/ TimeoutFires
    \/ Dispatch
    \/ Publish
    \/ Notify
    \/ Cancel
    \/ Read

Spec == Init /\ [][Next]_vars

\* ---------------------------------------------------------------- fair worker
\* the worker is never cancelled, is scheduled whenever it can run, and its
\* model.transcribe calls return or raise; the clock does not stop while a
\* timer of wait_for is armed, so that every timeout comes to expire.
\* Producers submit in-memory payloads: lines 32-48 do not look at what an
\* item carries
FairTick ==
    /\ now < MaxTime \/ (pc = "wait" /\ now < waitUntil)
    /\ ~(pc = "wait" /\ now < waitUntil /\ transcription_queue # <<>>)
    /\ now' = now + 1
    /\ UNCHANGED <<vadVars, restVars, max_batch, batch_ms, transcription_queue, unfinished, results,
                   disk, nextTmp, pc, batch, deadline, waitUntil, outs, calls,
                   notifies, nextId, status, dispatched, delivered>>

\* one step of the body of `while True` (lines 32-75)
batch_worker ==
    \/ GetFirst
    \/ CollectCheck
    \/ GetNext
    \/ TimeoutFires
    \/ Dispatch
    \/ Publish
    \/ Notify

FairNext ==
    \/ FairTick
    \/ PutBytes
    \/ batch_worker

SpecFair == Init /\ [][FairNext]_vars /\ WF_vars(batch_worker) /\ WF_vars(FairTick)

TypeOK ==
    /\ pc \in {"get_first", "collect", "wait", "dispatch", "publish", "notify", "cancelled"}
    /\ unfinished >= 0
    /\ now \in 0..MaxTime

\* ---------------------------------------------------------------- burst scenario
\* batch_worker with its default arguments; ScenarioItems items are enqueued
\* within ScenarioSpan ms and nothing else is; the worker is not cancelled
ScenarioInit ==
    /\ max_batch = DefaultMaxBatch
    /\ batch_ms = DefaultBatchMs
    /\ Started
    /\ seg = "feed"
    /\ VadIdle
    /\ RestIdle

ScenarioEnd == ScenarioSpan + DefaultBatchMs + 1

\* the clock stands still while the worker runs from an append to the loop
\* test (no await in between) and while an awaited item is available; it does
\* not pass the end of the burst before the whole burst is enqueued
ScenarioTick ==
    /\ now < ScenarioEnd
    /\ now < ScenarioSpan \/ nextId > ScenarioItems
    /\ pc # "collect"
    /\ ~(pc = "wait" /\ now < waitUntil /\ transcription_queue # <<>>)
    /\ now' = now + 1
    /\ UNCHANGED <<vadVars, restVars, max_batch, batch_ms, transcription_queue, unfinished, results,
                   disk, nextTmp, pc, batch, deadline, waitUntil, outs, calls,
                   notifies, nextId, status, dispatched, delivered>>

\* the items of the burst are uploads (bytes)
ScenarioPut ==
    /\ now <= ScenarioSpan
    /\ Put(<<"bytes", 0>>, disk, ScenarioItems)

ScenarioNext ==
    \/ ScenarioTick
    \/ ScenarioPut
    \/ GetFirst
    \/ CollectCheck
    \/ GetNext
    \/ TimeoutFires
    \/ Dispatch
    \/ Publish
    \/ Notify

SpecScenario == ScenarioInit /\ [][ScenarioNext]_vars

\* ---------------------------------------------------------------- segmenters
Segmenters == {"feed", "vad_chunk_lowmem", "vad_chunk_streaming"}

\* the probability the VAD model gives a window, against the two thresholds of
\* the iterator: at least threshold, below threshold - 0.15, or in between
Probs == {"speech", "between", "silence"}

\* a minimum silence longer than the pause of the scenario
min_silence_ms_longer(s) == PauseSilenceMs + MIN_SILENCE_MS

\* min_silence_duration_ms of the iterator of segmenter s
min_silence_ms(s) == IF s = "feed" THEN MIN_SILENCE_MS ELSE TRAIL_SIL_MS

min_silence_samples(s) == (SAMPLE_RATE * min_silence_ms(s)) \div 1000

ceiling_ms(s) == IF s = "feed" THEN MAX_SPEECH_MS ELSE MAX_CHUNK_MS

\* VADIterator.__call__ on one window: current_sample advances; speech clears
\* a pending temp_end; speech while not triggered is a start; silence while
\* triggered sets temp_end and, min_silence_samples later, is an end.
\* `since` is current_sample - temp_end, kept up to min_silence_samples
vad_call(v, prob, s) ==
    LET adv == IF v.temp_end
               THEN [v EXCEPT !.since = Min(v.since + WINDOW_SAMPLES,
                                            min_silence_samples(s))]
               ELSE v
        v1 == IF prob = "speech" /\ adv.temp_end
              THEN [adv EXCEPT !.temp_end = FALSE, !.since = 0]
              ELSE adv
    IN  IF prob = "speech" /\ ~v1.triggered
        THEN [vad |-> [v1 EXCEPT !.triggered = TRUE], evt |-> "start"]
        ELSE IF prob = "silence" /\ v1.triggered
        THEN LET v2 == IF v1.temp_end THEN v1
                       ELSE [v1 EXCEPT !.temp_end = TRUE, !.since = 0]
             IN  IF v2.since < min_silence_samples(s)
                 THEN [vad |-> v2, evt |-> "none"]
                 ELSE [vad |-> reset_states, evt |-> "end"]
        ELSE [vad |-> v1, evt |-> "none"]

\* the ceiling has to be passed, not reached
should_flush_above(s, evt, ms) == evt = "end" \/ ms > ceiling_ms(s)

\* any event of the VAD flushes
should_flush_any_event(s, evt, ms) == evt # "none" \/ ms >= ceiling_ms(s)

\* no ceiling
should_flush_end_only(s, evt, ms) == evt = "end"

\* the test after each window: an end event, or the ceiling reached
should_flush(s, evt, ms) == evt = "end" \/ ms >= ceiling_ms(s)

\* the segmenter state one window works on
Cur == [vad |-> vad, buffer |-> buffer, speech_ms |-> speech_ms,
        voice_event |-> voice_event, flushed |-> flushed, mid |-> mid]

\* the window was appended and did not flush
kept(r, n, ms) ==
    [vad |-> r.vad, buffer |-> n, speech_ms |-> ms, voice_event |-> r.evt,
     flushed |-> 0, mid |-> r.vad.triggered]

\* a flush that leaves the iterator as it is
flush_vad_keeps(v) == v

\* StreamingVAD._flush: self.vad.reset_states()
flush_vad(v) == reset_states

\* speech_ms counts the windows the VAD took for speech only
feed_window_counts_speech(st, prob) ==
    LET r == vad_call(st.vad, prob, "feed")
        ms == st.speech_ms + (IF prob = "speech" THEN WINDOW_MS ELSE 0)
        n == st.buffer + 1
    IN  IF should_flush("feed", r.evt, ms)
        THEN [vad |-> flush_vad(r.vad), buffer |-> 0, speech_ms |-> 0,
              voice_event |-> r.evt, flushed |-> n, mid |-> r.vad.triggered]
        ELSE kept(r, n, ms)

\* StreamingVAD.feed, one full window (lines 62-70)
feed_window(st, prob) ==
    LET r == vad_call(st.vad, prob, "feed")
        ms == st.speech_ms + WINDOW_MS
        n == st.buffer + 1
    IN  IF should_flush("feed", r.evt, ms)
        THEN [vad |-> flush_vad(r.vad), buffer |-> 0, speech_ms |-> 0,
              voice_event |-> r.evt, flushed |-> n, mid |-> r.vad.triggered]
        ELSE kept(r, n, ms)

\* the ceiling test is left out
lowmem_window_no_ceiling(st, prob) ==
    LET r == vad_call(st.vad, prob, "vad_chunk_lowmem")
        ms == st.speech_ms + WINDOW_MS
        n == st.buffer + 1
    IN  IF r.evt = "end" /\ n > 0
        THEN [vad |-> r.vad, buffer |-> 0, speech_ms |-> 0,
              voice_event |-> r.evt, flushed |-> n, mid |-> r.vad.triggered]
        ELSE kept(r, n, ms)

\* vad_chunk_lowmem, one full window (lines 77-89): the flush is under
\* `if current_chunk`
lowmem_window(st, prob) ==
    LET r == vad_call(st.vad, prob, "vad_chunk_lowmem")
        ms == st.speech_ms + WINDOW_MS
        n == st.buffer + 1
    IN  IF should_flush("vad_chunk_lowmem", r.evt, ms) /\ n > 0
        THEN [vad |-> r.vad, buffer |-> 0, speech_ms |-> 0,
              voice_event |-> r.evt, flushed |-> n, mid |-> r.vad.triggered]
        ELSE kept(r, n, ms)

\* vad_chunk_streaming, one full window (lines 144-151)
streaming_window(st, prob) ==
    LET r == vad_call(st.vad, prob, "vad_chunk_streaming")
        ms == st.speech_ms + WINDOW_MS
        n == st.buffer + 1
    IN  IF should_flush("vad_chunk_streaming", r.evt, ms)
        THEN [vad |-> r.vad, buffer |-> 0, speech_ms |-> 0,
              voice_event |-> r.evt, flushed |-> n, mid |-> r.vad.triggered]
        ELSE kept(r, n, ms)

window(s, st, prob) ==
    CASE s = "feed" -> feed_window(st, prob)
      [] s = "vad_chunk_lowmem" -> lowmem_window(st, prob)
      [] s = "vad_chunk_streaming" -> streaming_window(st, prob)

\* the segmenter variables take the values of st
SetCur(st) ==
    /\ vad' = st.vad
    /\ buffer' = st.buffer
    /\ speech_ms' = st.speech_ms
    /\ voice_event' = st.voice_event
    /\ flushed' = st.flushed
    /\ mid' = st.mid

\* one full window of the loop: the VAD call, the append, speech_ms += 32 and
\* the flush test; _flush of StreamingVAD also resets the VAD, the chunkers
\* only clear the buffer and speech_ms
Window(prob) ==
    /\ vpc = "loop"
    /\ SetCur(window(seg, Cur, prob))
    /\ UNCHANGED <<seg, vpc, schedVars>>

\* a chunker at the end of its input: the rest of the buffer is the last chunk
EndOfInput ==
    /\ seg # "feed"
    /\ vpc = "loop"
    /\ vpc' = "returned"
    /\ flushed' = buffer
    /\ mid' = vad.triggered
    /\ UNCHANGED <<seg, vad, buffer, speech_ms, voice_event, schedVars>>

VadInit ==
    /\ max_batch = DefaultMaxBatch
    /\ batch_ms = DefaultBatchMs
    /\ Started
    /\ seg \in Segmenters
    /\ VadIdle
    /\ RestIdle

VadNext ==
    \/ \E prob \in Probs : Window(prob) /\ UNCHANGED restVars
    \/ EndOfInput /\ UNCHANGED restVars

SpecVAD == VadInit /\ [][VadNext]_vars

\* ---------------------------------------------------------------- silent input
\* a chunker on a finite input in which no window reaches the threshold
Quiet == Probs \ {"speech"}

QuietInit ==
    /\ VadInit
    /\ seg # "feed"

QuietNext ==
    \/ \E prob \in Quiet : Window(prob) /\ UNCHANGED restVars
    \/ EndOfInput /\ UNCHANGED restVars

SpecQuiet == QuietInit /\ [][QuietNext]_vars

\* ---------------------------------------------------------------- classifier failure
\* the call of the VAD on a window raises: no segmenter has a handler around
\* it, so the exception leaves feed / the chunker before the window is
\* appended; the paths collected so far in `out` / `chunks` / `paths` go with it
ClassifierRaises ==
    /\ vpc = "loop"
    /\ vpc' = "raised"
    /\ UNCHANGED <<seg, vad, buffer, speech_ms, voice_event, flushed, mid,
                   schedVars>>

\* the caller of feed caught the exception and calls feed with the next frame;
\* the object is as the failed call left it
CallAgain ==
    /\ seg = "feed"
    /\ vpc = "raised"
    /\ vpc' = "loop"
    /\ UNCHANGED <<seg, vad, buffer, speech_ms, voice_event, flushed, mid,
                   schedVars>>

ClassifierNext ==
    \/ \E prob \in Probs : Window(prob) /\ UNCHANGED restVars
    \/ EndOfInput /\ UNCHANGED restVars
    \/ ClassifierRaises /\ UNCHANGED restVars
    \/ CallAgain /\ UNCHANGED restVars

SpecClassifier == VadInit /\ [][ClassifierNext]_vars

\* ---------------------------------------------------------------- two streams
\* the model call inside VADIterator.__call__ reads and updates the recurrent
\* state of the model object; VADIterator.reset_states() also resets the model
model_after(h, s, st) == IF st.flushed > 0 THEN {} ELSE h \cup {s}

\* instance s processes one full window
StreamWindow(s, prob) ==
    /\ s = 2 => others < MaxOthers
    /\ LET st == feed_window(streams[s], prob)
       IN  /\ streams' = [streams EXCEPT ![s] = st]
           /\ hidden' = [hidden EXCEPT
                            ![model_of(s)] = model_after(@, s, st)]
    /\ others' = IF s = 2 THEN others + 1 ELSE others
    /\ UNCHANGED <<moreVars, vadVars, feedVars, runVars, schedVars>>

SharedNext == \E s \in Streams, prob \in Probs : StreamWindow(s, prob)

\* ---------------------------------------------------------------- feed calls
\* the frames a caller passes to feed: 20 ms, one window, 40 ms, two windows
FrameSamples ==
    {(SAMPLE_RATE * ms) \div 1000 :
        ms \in {MinFrameMs, WINDOW_MS, MaxFrameMs, 2 * WINDOW_MS}}

\* range(0, len, 512) with the break on a window shorter than 512: the
\* windows that reach the VAD
full_windows(n) == n \div WINDOW_SAMPLES

RECURSIVE feed(_, _)
\* StreamingVAD.feed on the full windows of one frame, given the probability
\* of each: the state it leaves and `out`, a segment length for each path
feed(st, probs) ==
    IF probs = <<>> THEN [st |-> st, out |-> <<>>]
    ELSE LET st1 == feed_window(st, Head(probs))
             r == feed(st1, Tail(probs))
         IN  [st |-> IF Len(probs) = 1 THEN st1 ELSE r.st,
              out |-> (IF st1.flushed > 0 THEN <<st1.flushed>> ELSE <<>>)
                         \o r.out]

\* one call feed(frame_bytes) with a frame of n samples; what is left of the
\* frame after its last full window is in no field of the object
FeedCall ==
    /\ seg = "feed"
    /\ ncalls < MaxCalls
    /\ \E n \in FrameSamples :
         \E probs \in [1..full_windows(n) -> Probs] :
            LET r == feed(Cur, probs)
            IN  /\ SetCur(IF probs = <<>> THEN Cur ELSE r.st)
                /\ out' = Len(r.out)
                /\ emitted' = emitted \o r.out
                /\ fed' = fed + n
                /\ appended' = appended + WINDOW_SAMPLES * Len(probs)
    /\ ncalls' = ncalls + 1
    /\ UNCHANGED <<moreVars, seg, vpc, script, schedVars, sharedVars, runVars>>

FeedInit ==
    /\ max_batch = DefaultMaxBatch
    /\ batch_ms = DefaultBatchMs
    /\ Started
    /\ seg = "feed"
    /\ VadIdle
    /\ RestIdle

FeedNext == FeedCall

SpecFeed == FeedInit /\ [][FeedNext]_vars

SpecShared == FeedInit /\ [][SharedNext]_vars

\* ---------------------------------------------------------------- stream scenarios
\* the full windows of ms milliseconds of audio, rounded down or up
WindowsOf(ms) == {ms \div WINDOW_MS, (ms + WINDOW_MS - 1) \div WINDOW_MS}

Repeat(prob, n) == [i \in 1..n |-> prob]

\* speech, a pause of silence, speech
PauseScripts ==
    {[kind |-> "pause", a |-> a, q |-> q,
      wins |-> Repeat("speech", a) \o Repeat("silence", q) \o Repeat("speech", b)] :
        a \in WindowsOf(PauseSpeechMs), q \in WindowsOf(PauseSilenceMs),
        b \in WindowsOf(PauseSpeechMs)}

\* speech only
LongScripts ==
    {[kind |-> "long", a |-> a, q |-> 0, wins |-> Repeat("speech", a)] :
        a \in WindowsOf(LongSpeechMs)}

\* speech_ms is not cleared by the flush
feed_call_keeps_count(st, prob) ==
    LET st1 == feed_window(st, prob)
    IN  IF st1.flushed > 0
        THEN [st1 EXCEPT !.speech_ms = st.speech_ms + WINDOW_MS]
        ELSE st1

\* feed called with a frame of exactly one window
feed_call(st, prob) == feed(st, <<prob>>).st

\* the next window of the scripted stream is passed to feed
ScriptWindow ==
    /\ seg = "feed"
    /\ ncalls < Len(script.wins)
    /\ LET st == feed_call(Cur, script.wins[ncalls + 1])
       IN  /\ SetCur(st)
           /\ out' = IF st.flushed > 0 THEN 1 ELSE 0
           /\ emitted' = IF st.flushed > 0 THEN Append(emitted, st.flushed)
                          ELSE emitted
    /\ fed' = fed + WINDOW_SAMPLES
    /\ appended' = appended + WINDOW_SAMPLES
    /\ ncalls' = ncalls + 1
    /\ UNCHANGED <<moreVars, seg, vpc, script, schedVars, sharedVars, runVars>>

StreamInit ==
    /\ max_batch = DefaultMaxBatch
    /\ batch_ms = DefaultBatchMs
    /\ Started
    /\ seg = "feed"
    /\ VadIdle
    /\ SharedIdle
    /\ RunIdle
    /\ MoreIdle
    /\ fed = 0
    /\ appended = 0
    /\ out = 0
    /\ ncalls = 0
    /\ emitted = <<>>
    /\ script \in PauseScripts \cup LongScripts

StreamNext == ScriptWindow

SpecStream == StreamInit /\ [][StreamNext]_vars

\* ---------------------------------------------------------------- repeated runs
\* windows of silence after which the iterator of a chunker returns an end
LongRun == (min_silence_samples("vad_chunk_streaming") \div WINDOW_SAMPLES) + 2

\* a file: up to n runs of 1 or LongRun windows of one probability class
Files(n) ==
    UNION {[1..k -> [prob : Probs, len : {1, LongRun}]] : k \in 0..n}

RECURSIVE expand(_)
\* the windows of a file, in order
expand(f) ==
    IF f = <<>> THEN <<>>
    ELSE [i \in 1..Head(f).len |-> Head(f).prob] \o expand(Tail(f))

\* a run starts from what the run before left
run_start_carries(l) == l

\* chunker.py 119-128 (43-54): every run makes a new VADIterator, an empty
\* buffer and speech_ms = 0
run_start(l) == NewStream

RECURSIVE runs_on(_, _, _)
\* a chunker s on the windows wins from the state st: the state at its return
\* and the lengths of the chunks it returns, the final flush included
runs_on(s, st, wins) ==
    IF wins = <<>>
    THEN [st |-> st,
          chunks |-> IF st.buffer > 0 THEN <<st.buffer>> ELSE <<>>]
    ELSE CHOOSE res \in
            {[st |-> r.st,
              chunks |-> (IF st1.flushed > 0 THEN <<st1.flushed>> ELSE <<>>)
                            \o r.chunks] :
                <<st1, r>> \in
                    {<<y, runs_on(s, y, rest)>> :
                        y \in {window(s, st, Head(wins))},
                        rest \in {Tail(wins)}}} : TRUE

\* the chunker that `seg` names, run on a file
run(st, f) == runs_on(seg, st, expand(f))

RunFirst ==
    /\ phase = "first"
    /\ LET r == run(run_start(left), input)
       IN  /\ first' = r.chunks
           /\ left' = r.st
    /\ phase' = "between"
    /\ UNCHANGED <<moreVars, input, second, vadVars, feedVars, sharedVars, schedVars>>

\* a run on another file between the two
RunOther ==
    /\ phase \in {"between", "other"}
    /\ \E f \in Files(1) :
         left' = run(run_start(left), f).st
    /\ phase' = "other"
    /\ UNCHANGED <<moreVars, input, first, second, vadVars, feedVars, sharedVars,
                   schedVars>>

RunSecond ==
    /\ phase \in {"between", "other"}
    /\ LET r == run(run_start(left), input)
       IN  /\ second' = r.chunks
           /\ left' = r.st
    /\ phase' = IF phase = "other" THEN "done_after_other" ELSE "done"
    /\ UNCHANGED <<moreVars, input, first, vadVars, feedVars, sharedVars, schedVars>>

RunsInit ==
    /\ max_batch = DefaultMaxBatch
    /\ batch_ms = DefaultBatchMs
    /\ Started
    /\ seg \in Segmenters \ {"feed"}
    /\ VadIdle
    /\ FeedIdle
    /\ SharedIdle
    /\ MoreIdle
    /\ input \in Files(MaxRuns)
    /\ first = <<>>
    /\ second = <<>>
    /\ left = NewStream
    /\ phase = "first"

RunsNext ==
    \/ RunFirst
    \/ RunOther
    \/ RunSecond

SpecRuns == RunsInit /\ [][RunsNext]_vars

\* ---------------------------------------------------------------- segments
\* what each segmenter hands out, window by window: `emitted` is the list of
\* the segments written by the last step, each by its length in windows

\* StreamingVAD._flush (lines 40-51) on a buffer of n windows: the paths it
\* returns
flush_paths(n) == IF n = 0 THEN <<>> ELSE <<n>>

\* feed tests the ceiling after the end event as well, and the second flush
\* writes what is left of the buffer
window_out_two_flushes(s, st, prob) ==
    LET r == vad_call(st.vad, prob, s)
        ms == st.speech_ms + WINDOW_MS
        n == st.buffer + 1
    IN  (IF r.evt = "end" THEN <<n>> ELSE <<>>)
            \o (IF ms >= ceiling_ms(s)
                THEN <<IF r.evt = "end" THEN 0 ELSE n>> ELSE <<>>)

\* the segments written for one full window, after the append: feed lines
\* 67-70 (if / elif, one _flush), vad_chunk_lowmem lines 85-87 (under
\* `if current_chunk`), vad_chunk_streaming lines 148-149
window_out(s, st, prob) ==
    LET r == vad_call(st.vad, prob, s)
        ms == st.speech_ms + WINDOW_MS
        n == st.buffer + 1
    IN  CASE s = "feed" ->
                IF r.evt = "end" THEN flush_paths(n)
                ELSE IF ms >= ceiling_ms(s) THEN flush_paths(n)
                ELSE <<>>
          [] s = "vad_chunk_lowmem" ->
                IF (r.evt = "end" \/ ms >= ceiling_ms(s)) /\ n > 0
                THEN <<n>> ELSE <<>>
          [] s = "vad_chunk_streaming" ->
                IF r.evt = "end" \/ ms >= ceiling_ms(s) THEN <<n>> ELSE <<>>

\* chunker.py 92-93, 153-154: the last chunk, if the buffer holds anything
final_out(n) == IF n > 0 THEN <<n>> ELSE <<>>

SegWindow(prob) ==
    /\ Window(prob)
    /\ emitted' = window_out(seg, Cur, prob)
    /\ UNCHANGED <<fed, appended, out, ncalls, script, sharedVars, runVars,
                   moreVars>>

SegEnd ==
    /\ EndOfInput
    /\ emitted' = final_out(buffer)
    /\ UNCHANGED <<fed, appended, out, ncalls, script, sharedVars, runVars,
                   moreVars>>

SegmentsNext ==
    \/ \E prob \in Probs : SegWindow(prob)
    \/ SegEnd

SpecSegments == VadInit /\ [][SegmentsNext]_vars

\* ---------------------------------------------------------------- stripes
\* a chunker on a 16 kHz mono file whose length is a whole number of windows,
\* read in stripes of STRIPE_FRAMES samples; a sample is named by its index in
\* the file and a stretch of samples by <<first, last + 1>>
STRIPE_FRAMES == SAMPLE_RATE * STRIPE_SEC

InputLens == {k * WINDOW_SAMPLES : k \in 1..MaxInputWindows}

\* snd.read(frames=STRIPE_FRAMES) / librosa.load(offset, duration=STRIPE_SEC):
\* the number of samples handed out at position pos of a file of len samples
stripe_read(len, pos) == Min(STRIPE_FRAMES, len - pos)

\* two lists of stretches laid end to end: stretches that touch become one
join(x, y) ==
    IF x # <<>> /\ y # <<>> /\ x[Len(x)][2] = y[1][1]
    THEN SubSeq(x, 1, Len(x) - 1) \o <<<<x[Len(x)][1], y[1][2]>>>> \o Tail(y)
    ELSE x \o y

\* buf.extend(...) with the samples a..z-1 of the file
extend(b, a, z) == join(b, <<<<a, z>>>>)

\* the window loop over the stripe in memory has no full window left
StripeDone == reader.start + WINDOW_SAMPLES > reader.n

\* chunker.py 132 / 59-65: the next stripe is read
ReadStripe ==
    /\ vpc = "loop"
    /\ StripeDone
    /\ reader.pos < reader.len
    /\ LET n == stripe_read(reader.len, reader.pos) IN
        reader' = [reader EXCEPT !.from = reader.pos, !.pos = reader.pos + n,
                                 !.n = n, !.start = 0]
    /\ UNCHANGED <<vadVars, bufr, chunks, feedVars, sharedVars, runVars, schedVars,
                   requestVars, logVars>>

\* chunker.py 140-151 / 71-89: one full window of the stripe
StripeWindow(prob) ==
    /\ vpc = "loop"
    /\ ~StripeDone
    /\ LET st == window(seg, Cur, prob)
           a == reader.from + reader.start
           nb == extend(bufr, a, a + WINDOW_SAMPLES)
       IN  /\ SetCur(st)
           /\ IF st.flushed > 0
              THEN chunks' = join(chunks, nb) /\ bufr' = <<>>
              ELSE bufr' = nb /\ UNCHANGED chunks
    /\ reader' = [reader EXCEPT !.start = reader.start + WINDOW_SAMPLES]
    /\ UNCHANGED <<seg, vpc, feedVars, sharedVars, runVars, schedVars, requestVars,
                   logVars>>

\* chunker.py 133-134 and 153-155 / 92-95: the file is at its end, what is
\* left in the buffer is the last chunk
StripeReturn ==
    /\ StripeDone
    /\ reader.pos >= reader.len
    /\ EndOfInput
    /\ chunks' = join(chunks, bufr)
    /\ UNCHANGED <<reader, bufr, feedVars, sharedVars, runVars, requestVars, logVars>>

StripesInit ==
    /\ max_batch = DefaultMaxBatch
    /\ batch_ms = DefaultBatchMs
    /\ Started
    /\ seg \in Segmenters \ {"feed"}
    /\ VadIdle
    /\ FeedIdle
    /\ SharedIdle
    /\ RunIdle
    /\ RequestIdle
    /\ LogIdle
    /\ reader \in {[len |-> l, pos |-> 0, from |-> 0, n |-> 0, start |-> 0] :
                    l \in InputLens}
    /\ bufr = <<>>
    /\ chunks = <<>>

StripesNext ==
    \/ ReadStripe
    \/ \E prob \in Probs : StripeWindow(prob)
    \/ StripeReturn

SpecStripes == StripesInit /\ [][StripesNext]_vars

\* ---------------------------------------------------------------- requests
\* routes.transcribe_audio serving one request at a time next to
\* model.lifespan.  The handler is a coroutine on the event loop of the
\* lifespan: the lifespan can take a step only while the handler is
\* suspended at an await, and lines 298-334 hold no await.  The lifespan is
\* split at its own statements although no request is served before its
\* yield under the ASGI server; a request in any of its states is allowed.
notRequest == <<schedVars, vadVars, feedVars, sharedVars, runVars, stripeVars,
                logVars>>

\* model.py 37-39
LifespanInit ==
    /\ life = "created"
    /\ app_state' = [model_loaded |-> "False", model_error |-> "None",
                     asr_model |-> "None"]
    /\ life' = "loading"
    /\ UNCHANGED <<req, files, notRequest>>

\* model.py 41-85: from_pretrained returns, or raises and the error is kept
LoadModel ==
    /\ life = "loading"
    /\ \E ok \in BOOLEAN :
        app_state' = IF ok
                     THEN [app_state EXCEPT !.asr_model = "model",
                                            !.model_loaded = "True"]
                     ELSE [app_state EXCEPT !.model_error = "error"]
    /\ life' = "serving"
    /\ UNCHANGED <<req, files, notRequest>>

\* model.py 90-98: del app.state.asr_model if it is there and not None
Shutdown ==
    /\ life = "serving"
    /\ app_state' = IF app_state.asr_model \notin {Absent, "None"}
                    THEN [app_state EXCEPT !.asr_model = Absent]
                    ELSE app_state
    /\ life' = "stopped"
    /\ UNCHANGED <<req, files, notRequest>>

\* routes.py 95-107: a request that fails validation, before any file is made
Reject ==
    /\ req.pc = "idle"
    /\ req' = [NoRequest EXCEPT !.pc = "raised", !.error = "HTTPException",
                                !.status = 400, !.at = "validation"]
    /\ UNCHANGED <<app_state, life, files, notRequest>>

\* routes.py 121-126: tmp_path is created, mp3_tmp_path = None
Arrive ==
    /\ req.pc = "idle"
    /\ \E mp3 \in BOOLEAN :
        req' = [NoRequest EXCEPT !.pc = "try", !.mp3 = mp3]
    /\ files' = [tmp |-> TRUE, mp3 |-> "None"]
    /\ UNCHANGED <<app_state, life, notRequest>>

\* routes.py 132-134: for an upload named *.mp3 a second temp file is made
OpenTarget ==
    /\ req.pc = "try"
    /\ files' = IF req.mp3 THEN [files EXCEPT !.mp3 = "exists"] ELSE files
    /\ req' = [req EXCEPT !.pc = "read"]
    /\ UNCHANGED <<app_state, life, notRequest>>

\* `if p.exists(): p.unlink()` for tmp_path and mp3_tmp_path
unlink_both(f) ==
    [tmp |-> FALSE, mp3 |-> IF f.mp3 = "exists" THEN "removed" ELSE f.mp3]

\* every handler of the outer try removes the files
except_files_all(f, exc) == unlink_both(f)

\* routes.py 239-270: the files after the handler of the outer try that
\* catches exc; `except HTTPException: raise` removes nothing
except_files(f, exc) == IF exc = "HTTPException" THEN f ELSE unlink_both(f)

\* routes.py 239-270: what the handler raises: CancelledError again, the
\* HTTPException as it is, HTTP 500 for BrokenPipeError and for the rest
except_raises(exc, code) ==
    IF exc = "CancelledError" THEN [error |-> "CancelledError", status |-> 0]
    ELSE IF exc = "HTTPException" THEN [error |-> "HTTPException", status |-> code]
    ELSE [error |-> "HTTPException", status |-> 500]

\* exc leaves the body of the outer try: its handler runs, then `finally`
Raised(exc, code) ==
    /\ files' = except_files(files, exc)
    /\ req' = [req EXCEPT !.pc = "finally",
                          !.error = except_raises(exc, code).error,
                          !.status = except_raises(exc, code).status,
                          !.at = "upload"]

\* routes.py 137-151 / 176-190: one `await file.read(8192)` and the write
ReadOutcomes ==
    {"chunk", "eof", "CancelledError", "read error", "OSError", "BrokenPipeError"}

ReadChunk ==
    /\ req.pc = "read"
    /\ \E o \in ReadOutcomes :
        CASE o = "chunk" ->
                /\ req.nread < MaxChunks
                /\ req' = [req EXCEPT !.nread = req.nread + 1]
                /\ UNCHANGED files
          [] o = "eof" ->
                /\ req' = [req EXCEPT !.pc = IF req.mp3 THEN "ffmpeg" ELSE "finally"]
                /\ UNCHANGED files
          [] o = "CancelledError" -> Raised("CancelledError", 0)
          [] o = "read error" -> Raised("HTTPException", 400)
          [] o = "OSError" -> Raised("Exception", 0)
          [] o = "BrokenPipeError" -> Raised("BrokenPipeError", 0)
    /\ UNCHANGED <<app_state, life, notRequest>>

\* routes.py 193-237: the subprocess; every exception of the inner try, the
\* HTTPException of line 219 included, leaves it as an HTTPException with
\* status 500 (lines 226-237); CancelledError is no Exception and passes
FfmpegOutcomes ==
    {"ok", "return code", "FileNotFoundError", "BrokenPipeError", "CancelledError"}

Ffmpeg ==
    /\ req.pc = "ffmpeg"
    /\ \E o \in FfmpegOutcomes :
        CASE o = "ok" -> req' = [req EXCEPT !.pc = "finally"] /\ UNCHANGED files
          [] o = "CancelledError" -> Raised("CancelledError", 0)
          [] OTHER -> Raised("HTTPException", 500)
    /\ UNCHANGED <<app_state, life, notRequest>>

\* routes.py 271-275: `await file.close()`; an Exception of close is logged,
\* a cancellation that arrives there propagates; then the pending error
\* propagates to the caller, or the handler goes on to line 277
Finally ==
    /\ req.pc = "finally"
    /\ \E o \in {"closed", "Exception", "CancelledError"} :
        IF o = "CancelledError"
        THEN req' = [req EXCEPT !.pc = "raised", !.error = "CancelledError",
                                !.status = 0, !.at = "upload"]
        ELSE req' = [req EXCEPT !.pc = IF req.error = "none" THEN "converted"
                                       ELSE "raised"]
    /\ UNCHANGED <<app_state, life, files, notRequest>>

\* routes.py 277-296: ensure_mono_16k returns or raises an HTTPException
EnsureMono ==
    /\ req.pc = "converted"
    /\ \E ok \in BOOLEAN :
        req' = IF ok THEN [req EXCEPT !.pc = "check"]
               ELSE [req EXCEPT !.pc = "raised", !.error = "HTTPException",
                                !.status = 422, !.at = "preprocess"]
    /\ UNCHANGED <<app_state, life, files, notRequest>>

\* the model is called whenever model_loaded is True
usable_if_loaded(a) == a.model_loaded = "True"

\* routes.py 298-322: getattr(state, "model_loaded", False) is true, the
\* attribute asr_model is there (no AttributeError) and it is not None
usable(a) == a.model_loaded = "True" /\ a.asr_model \notin {Absent, "None"}

\* routes.py 298-445: the test of the application state and, with no await
\* in between, model.transcribe, which returns or raises
Transcribe ==
    /\ req.pc = "check"
    /\ IF usable(app_state)
       THEN \E code \in {200, 413, 504, 422} :
               req' = [req EXCEPT !.pc = IF code = 200 THEN "responded" ELSE "raised",
                                  !.error = IF code = 200 THEN "none" ELSE "HTTPException",
                                  !.status = code, !.at = "model",
                                  !.called = TRUE,
                                  !.seen = [model_loaded |-> app_state.model_loaded,
                                            asr_model |-> app_state.asr_model]]
       ELSE req' = [req EXCEPT !.pc = "raised", !.error = "HTTPException",
                               !.status = 503, !.at = "model",
                               !.seen = [model_loaded |-> app_state.model_loaded,
                                         asr_model |-> app_state.asr_model]]
    /\ UNCHANGED <<app_state, life, files, notRequest>>

\* the next request
Done ==
    /\ req.pc \in {"raised", "responded"}
    /\ req' = NoRequest
    /\ files' = NoFiles
    /\ UNCHANGED <<app_state, life, notRequest>>

RequestInit ==
    /\ max_batch = DefaultMaxBatch
    /\ batch_ms = DefaultBatchMs
    /\ Started
    /\ seg = "feed"
    /\ VadIdle
    /\ RestIdle

RequestNext ==
    \/ LifespanInit
    \/ LoadModel
    \/ Shutdown
    \/ Reject
    \/ Arrive
    \/ OpenTarget
    \/ ReadChunk
    \/ Ffmpeg
    \/ Finally
    \/ EnsureMono
    \/ Transcribe
    \/ Done

SpecRequest == RequestInit /\ [][RequestNext]_vars

\* ---------------------------------------------------------------- logging
\* the process of `cmd`: importing main imports parakeet_service.config,
\* whose last line calls get_logger; then typer calls cmd with the count of
\* -v flags.  A level is written by its name
Levels == <<"DEBUG", "INFO", "WARNING", "ERROR", "CRITICAL">>

LevelNames == {Levels[i] : i \in 1..Len(Levels)}

\* logging.DEBUG < logging.INFO < ... as positions in Levels
level_no(l) == CHOOSE i \in 1..Len(Levels) : Levels[i] = l

\* the values of the environment variable LOG_LEVEL
EnvValues == LevelNames \cup {"unset", "debug", "TRACE"}

\* str.upper() on the strings that occur
upper(x) == IF x = "debug" THEN "DEBUG" ELSE x

\* config.py 36-44: level_map.get(log_level.upper(), logging.INFO)
level_of(x) == IF upper(x) \in LevelNames THEN upper(x) ELSE "INFO"

\* config.py 25-82: nothing is done once _logging_configured is set;
\* otherwise the handlers of the root logger are replaced by one, its level
\* is set, and mlx, librosa, ... are set to WARNING unless the level is DEBUG
configure_logging(l, log_level) ==
    IF l.configured THEN l
    ELSE [configured |-> TRUE, root |-> level_of(log_level), handlers |-> 1,
          third_party |-> IF level_no(level_of(log_level)) > level_no("DEBUG")
                          THEN "WARNING" ELSE l.third_party]

\* config.py 85-95: get_logger configures with LOG_LEVEL, default INFO, if
\* nothing was configured before
get_logger(l, env) ==
    IF ~l.configured
    THEN configure_logging(l, upper(IF env = "unset" THEN "INFO" ELSE env))
    ELSE l

\* main.py 94-101
verbosity_level(v) ==
    IF v = 0 THEN "ERROR"
    ELSE IF v = 1 THEN "WARNING"
    ELSE IF v = 2 THEN "INFO"
    ELSE "DEBUG"

notLog == <<schedVars, vadVars, feedVars, sharedVars, runVars, stripeVars,
            requestVars>>

\* main.py 8-9: `from parakeet_service import config` runs config.py, whose
\* line 99 is logger = get_logger("parakeet_service")
ImportConfig ==
    /\ cli.pc = "start"
    /\ logging' = get_logger(logging, cli.env)
    /\ cli' = [cli EXCEPT !.pc = "config imported"]
    /\ UNCHANGED notLog

\* main.py 10-11: model.py and routes.py (and audio.py) call get_logger at
\* import
ImportModules ==
    /\ cli.pc = "config imported"
    /\ logging' = get_logger(logging, cli.env)
    /\ cli' = [cli EXCEPT !.pc = "imported"]
    /\ UNCHANGED notLog

\* main.py 94-101
CmdLevel ==
    /\ cli.pc = "imported"
    /\ cli' = [cli EXCEPT !.pc = "level", !.log_level = verbosity_level(cli.verbose)]
    /\ UNCHANGED <<logging, notLog>>

\* main.py 104
CmdConfigure ==
    /\ cli.pc = "level"
    /\ logging' = configure_logging(logging, cli.log_level)
    /\ cli' = [cli EXCEPT !.pc = "configured"]
    /\ UNCHANGED notLog

\* main.py 129-140: uvicorn.run(..., log_config=None)
Serve ==
    /\ cli.pc = "configured"
    /\ cli' = [cli EXCEPT !.pc = "serving"]
    /\ UNCHANGED <<logging, notLog>>

LoggingInit ==
    /\ max_batch = DefaultMaxBatch
    /\ batch_ms = DefaultBatchMs
    /\ Started
    /\ seg = "feed"
    /\ VadIdle
    /\ FeedIdle
    /\ SharedIdle
    /\ RunIdle
    /\ StripeIdle
    /\ RequestIdle
    /\ logging = [configured |-> FALSE, root |-> "WARNING", handlers |-> 0,
              third_party |-> "NOTSET"]
    /\ cli \in {[pc |-> "start", env |-> e, verbose |-> v, log_level |-> "none"] :
                    e \in EnvValues, v \in 0..MaxVerbose}

LoggingNext ==
    \/ ImportConfig
    \/ ImportModules
    \/ CmdLevel
    \/ CmdConfigure
    \/ Serve

SpecLogging == LoggingInit /\ [][LoggingNext]_vars

\* ---------------------------------------------------------------- properties
RECURSIVE Flatten(_)
Flatten(log) == IF log = <<>> THEN <<>> ELSE log[1].ids \o Flatten(Tail(log))

\* the identities of the batch being gathered or awaiting inference
InProgress ==
    IF batch # <<>> /\ (dispatched = <<>> \/ dispatched[Len(dispatched)].ids # IdSeq(batch))
    THEN IdSeq(batch) ELSE <<>>

\* <<identity, key>> of every item whose text was stored in results
Published ==
    UNION {{<<dispatched[k].ids[i], dispatched[k].paths[i]>> :
                i \in 1..Len(dispatched[k].ids)} :
           k \in {n \in 1..Len(dispatched) :
                    dispatched[n].ok /\ (n < Len(dispatched) \/ pc # "publish")}}

\* C1: every batch handed to inference holds at least one item and at most
\* max_batch items, both at the moment of dispatch and in the log of batches.
C1_BatchSize ==
    /\ pc = "dispatch" => (1 <= Len(batch) /\ Len(batch) <= max_batch)
    /\ \A k \in 1..Len(dispatched) :
          1 <= Len(dispatched[k].ids) /\ Len(dispatched[k].ids) <= max_batch

\* a full batch of two is about to be dispatched after an earlier batch
C1_Witness ==
    /\ pc = "dispatch"
    /\ max_batch = 2
    /\ Len(batch) = max_batch
    /\ dispatched # <<>>

\* C2: no item of a failed batch is dropped: each one gets a failure outcome
\* that its submitter can see.  ("dropped" is what lines 58-62 do to an item:
\* task_done() and nothing else, no entry in results and no notify_all.)
C2_FailedItemsResolved == \A i \in DOMAIN status : status[i] # "dropped"

\* C3: once the worker has been cancelled, no item taken off the queue is left
\* neither completed nor failed.
C3_CancelLeavesNoOrphan ==
    pc = "cancelled" => \A i \in DOMAIN status : status[i] # "batched"

\* C4: between two batches no temporary file made by _as_path is left on disk.
C4_TempFilesRemoved == pc = "get_first" => \A f \in disk : f[1] # "tmp"

\* C5: task_done() is called exactly once per dequeued item, on the success
\* and on the failure path: while the worker lives, the unfinished-task count
\* is the number of queued items plus the items of a batch not yet handled.
C5_TaskDoneOncePerItem ==
    pc # "cancelled" =>
        unfinished = Len(transcription_queue)
                     + (IF pc \in {"collect", "wait", "dispatch", "publish"}
                        THEN Len(batch) ELSE 0)

\* a failed batch of two and a successful batch were handled, join() is free
C5_Witness ==
    /\ pc = "get_first"
    /\ Len(dispatched) = 2
    /\ ~dispatched[1].ok /\ Len(dispatched[1].ids) = 2
    /\ dispatched[2].ok
    /\ transcription_queue = <<>>
    /\ unfinished = 0

C8_Fifo ==
    Flatten(dispatched) \o InProgress \o IdSeq(transcription_queue)
        = [i \in 1..(nextId - 1) |-> i]

C8_Witness ==
    /\ Len(dispatched) = 2
    /\ Len(dispatched[1].ids) = 2

C10_UniqueKeys ==
    \A x \in Published, y \in Published : x[1] # y[1] => x[2] # y[2]

\* the number of successful batches whose notify_all() is due
OkHandled ==
    Cardinality({n \in 1..Len(dispatched) :
                    dispatched[n].ok
                    /\ (n < Len(dispatched) \/ pc \notin {"publish", "notify"})})

\* a step that handles an inference failure
FailureStep ==
    /\ Len(dispatched') > Len(dispatched)
    /\ ~dispatched'[Len(dispatched')].ok

\* C11: the texts of all items of a batch are in results when the storing
\* loop ends, no notify_all() happens before that, and each successful batch
\* gets exactly one notify_all().
C11_StoreThenNotifyOnce ==
    [][/\ (pc = "publish" /\ pc' = "notify") =>
            /\ notifies' = notifies
            /\ \A i \in 1..Len(batch) :
                  /\ batch[i].path \in DOMAIN results'
                  /\ results'[batch[i].path] \in Ids(batch)
       /\ notifies' # notifies =>
            /\ pc = "notify"
            /\ notifies' = notifies + 1
            /\ \A i \in Ids(batch) : status[i] = "done"
       /\ pc' # "cancelled" => notifies' = OkHandled'
      ]_vars

\* a batch of two was stored and notified once
C11_Witness ==
    /\ pc = "get_first"
    /\ Len(dispatched) = 1
    /\ dispatched[1].ok /\ Len(dispatched[1].ids) = 2
    /\ notifies = 1

\* C12: a failed batch leaves results as it was, and no text of an item of a
\* failed batch is ever in results.
C12_FailedBatchPublishesNothing ==
    [][/\ FailureStep => results' = results
       /\ \A k \in DOMAIN results' : status'[results'[k]] = "done"
      ]_vars

\* a batch of two failed at its second call while results held an earlier text
C12_Witness ==
    /\ Len(dispatched) = 2
    /\ dispatched[1].ok
    /\ ~dispatched[2].ok
    /\ Len(calls) = 2
    /\ DOMAIN results # {}

\* the positions the worker goes through, in the order of the loop
CycleSteps ==
    {<<"get_first", "collect">>, <<"collect", "wait">>, <<"collect", "dispatch">>,
     <<"wait", "collect">>, <<"wait", "dispatch">>, <<"dispatch", "publish">>,
     <<"dispatch", "get_first">>, <<"publish", "notify">>, <<"notify", "get_first">>}

\* C13: the worker goes Idle -> Collecting -> Dispatching -> Idle; from the
\* start of inference to the publication of the results the batch is fixed and
\* nothing is dequeued; the items dequeued and not yet published or failed
\* all belong to the one current batch.
C13_NoReentrancy ==
    [][/\ \/ pc' = pc
          \/ <<pc, pc'>> \in CycleSteps
          \/ (pc \in AwaitPoints /\ pc' = "cancelled")
       /\ (pc = "dispatch" /\ pc' = "get_first") => FailureStep
       /\ pc \in {"dispatch", "publish"} =>
            /\ batch' = batch
            /\ Len(transcription_queue') >= Len(transcription_queue)
            /\ SubSeq(transcription_queue', 1, Len(transcription_queue))
                  = transcription_queue
       /\ {i \in DOMAIN status' : status'[i] = "batched"} \subseteq Ids(batch')
      ]_vars

\* a second batch is in inference while an item waits in the queue
C13_Witness ==
    /\ pc = "publish"
    /\ Len(dispatched) = 2
    /\ transcription_queue # <<>>

\* C14: the failure handler puts nothing back on the queue and
\* leaves the worker at the await for the next first item; no item is handed
\* to inference twice.
C14_NoRetryKeepsServing ==
    [][/\ FailureStep =>
            /\ pc' = "get_first"
            /\ transcription_queue' = transcription_queue
            /\ unfinished' = unfinished - Len(batch)
       /\ dispatched' # dispatched =>
            LET handed == Flatten(dispatched')
            IN  Cardinality({handed[m] : m \in 1..Len(handed)}) = Len(handed)
       /\ \A i \in Ids(transcription_queue') : status'[i] = "queued"
      ]_vars

\* after a failed batch a later batch was dispatched and published
C14_Witness ==
    /\ Len(dispatched) = 2
    /\ ~dispatched[1].ok
    /\ dispatched[2].ok
    /\ status[dispatched[2].ids[1]] = "done"

\* C15: the storing loop leaves under the key of batch[i] the text of
\* output i, for every index i of the batch.
C15_ResultsByPosition ==
    [][(pc = "publish" /\ pc' = "notify") =>
            \A i \in 1..Len(batch) : results'[batch[i].path] = outs[i]
      ]_vars

\* C16: in the burst scenario the first batch is the items 1..max_batch and
\* leaves the gathering loop on its size, before the window is over; the rest
\* of the burst is the second batch, gathered only when the items of the first
\* batch have been published or failed.
C16_BurstScenario ==
    [][/\ Len(dispatched') >= 1 =>
            dispatched'[1].ids = [i \in 1..DefaultMaxBatch |-> i]
       /\ Len(dispatched') >= 2 =>
            dispatched'[2].ids =
                [i \in 1..(ScenarioItems - DefaultMaxBatch) |-> DefaultMaxBatch + i]
       /\ (pc # "dispatch" /\ pc' = "dispatch" /\ dispatched = <<>>) =>
            (Len(batch') = DefaultMaxBatch /\ now' < deadline')
       /\ \A i \in Ids(batch') :
            i > DefaultMaxBatch =>
                \A j \in 1..DefaultMaxBatch : status'[j] \in {"done", "dropped"}
      ]_vars

\* both batches of the burst were dispatched
C16_Witness ==
    /\ Len(dispatched) = 2
    /\ Len(dispatched[1].ids) = DefaultMaxBatch
    /\ dispatched[2].ids[1] = DefaultMaxBatch + 1
    /\ nextId > ScenarioItems

\* C17: in feed, a window is followed by a flush exactly when the VAD
\* returned an end event for it or speech_ms, with the 32 ms of the window
\* added, has reached MAX_SPEECH_MS.
C17_FeedFlushIff ==
    [][(seg = "feed" /\ vadVars' # vadVars) =>
            (flushed' > 0 <=>
                (voice_event' = "end" \/ speech_ms + WINDOW_MS >= MAX_SPEECH_MS))
      ]_vars

\* feed flushed on the ceiling with no end event
C17_Witness ==
    /\ seg = "feed"
    /\ flushed > 0
    /\ voice_event # "end"

\* C18 as stated: a flushed segment whose last window was inside a speech
\* region had an end event or had reached the ceiling.
C18_MidSpeechOnlyEndOrCeiling ==
    (flushed > 0 /\ mid) =>
        (voice_event = "end" \/ flushed * WINDOW_MS >= ceiling_ms(seg))

\* C18 amended: ... or it is the last chunk of a chunker, flushed because the
\* input ended.
C18_MidSpeechEndCeilingOrEof ==
    (flushed > 0 /\ mid) =>
        \/ voice_event = "end"
        \/ flushed * WINDOW_MS >= ceiling_ms(seg)
        \/ seg # "feed" /\ vpc = "returned"

\* a chunker flushed its last chunk inside a speech region, below the ceiling
C18_Witness ==
    /\ seg = "vad_chunk_lowmem"
    /\ vpc = "returned"
    /\ flushed > 0
    /\ mid
    /\ flushed * WINDOW_MS < ceiling_ms(seg)

\* C19: a chunk that a chunker flushes inside its loop, with input still to
\* come, does not end inside a speech region.
C19_NoCutMidUtterance ==
    (seg # "feed" /\ vpc = "loop" /\ flushed > 0) => ~mid

\* C20: a segment of feed is at most MAX_SPEECH_MS and one window long, a
\* chunk of a chunker at most MAX_SEC and one stripe.
C20_DurationBounded ==
    /\ seg = "feed" => flushed * WINDOW_MS <= MAX_SPEECH_MS + WINDOW_MS
    /\ seg # "feed" => flushed * WINDOW_MS <= (MAX_SEC + STRIPE_SEC) * 1000

\* a chunker flushed a chunk of the length of its ceiling
C20_Witness ==
    /\ seg = "vad_chunk_streaming"
    /\ flushed * WINDOW_MS = MAX_CHUNK_MS

\* C21: between feed calls less than one window of the samples passed in
\* so far is waiting to be classified; everything else was appended.
C21_PartialHeldBack ==
    fed - appended < WINDOW_SAMPLES

\* C22: a failure of the classifier on a window is taken as silence: neither
\* feed nor a chunker is left by an exception.
C22_ClassifierFailureIsSilence ==
    vpc # "raised"

\* C23: a step of one StreamingVAD instance changes neither the iterator of
\* the other instance nor the recurrent state of the model the other instance
\* classifies with.
C23_StreamsIsolated ==
    [][\A a, b \in Streams :
          (a # b /\ streams'[a] # streams[a]) =>
              /\ streams'[b] = streams[b]
              /\ hidden'[model_of(b)] = hidden[model_of(b)]
      ]_vars

\* C24: a flush of StreamingVAD hands out the buffer with the window just
\* appended and leaves the buffer empty, speech_ms at 0 and the iterator reset.
C24_FlushResets ==
    [][(seg = "feed" /\ flushed' > 0 /\ vadVars' # vadVars) =>
            /\ flushed' = buffer + 1
            /\ buffer' = 0
            /\ speech_ms' = 0
            /\ vad' = reset_states
      ]_vars

\* StreamingVAD flushed on the ceiling inside a speech region and is reset
C24_Witness ==
    /\ seg = "feed"
    /\ flushed > 0
    /\ mid
    /\ vad = reset_states
    /\ buffer = 0
    /\ speech_ms = 0

\* C25: a flush inside the loop of a chunker leaves the iterator reset.
C25_ChunkerResetsVad ==
    [][(seg # "feed" /\ vpc' = "loop" /\ flushed' > 0) => vad' = reset_states
      ]_vars

\* C26: on an input without speech a chunker flushes nothing, in its loop or
\* at the end of the input.
C26_QuietGivesNoChunks ==
    flushed = 0

C28_SameFlushRule ==
    seg # "feed" =>
        \A prob \in Probs : lowmem_window(Cur, prob) = streaming_window(Cur, prob)

\* vad_chunk_lowmem flushed a chunk at the ceiling inside its loop
C28_Witness ==
    /\ seg = "vad_chunk_lowmem"
    /\ vpc = "loop"
    /\ flushed * WINDOW_MS = MAX_CHUNK_MS

\* the scripted stream was fed to its end
Streamed == ncalls = Len(script.wins)

\* about 5 s: the speech plus at most the pause
AboutSpeech(n) ==
    /\ n * WINDOW_MS >= PauseSpeechMs - WINDOW_MS
    /\ n * WINDOW_MS <= PauseSpeechMs + PauseSilenceMs + WINDOW_MS

\* C29: in the pause scenario nothing is flushed before the pause, exactly one
\* segment is flushed, by a window of the pause, and at the end of the stream
\* that segment and the segment left in the buffer are each about the length
\* of one stretch of speech.
C29_PauseScenario ==
    script.kind = "pause" =>
        /\ Len(emitted) <= 1
        /\ ncalls <= script.a => emitted = <<>>
        /\ ncalls >= script.a + script.q => Len(emitted) = 1
        /\ emitted # <<>> =>
            /\ emitted[1] > script.a
            /\ emitted[1] <= script.a + script.q
        /\ Streamed =>
            /\ AboutSpeech(emitted[1])
            /\ AboutSpeech(buffer)
            /\ emitted[1] + buffer = Len(script.wins)

\* the pause scenario was fed to its end with one segment flushed
C29_Witness ==
    /\ script.kind = "pause"
    /\ Streamed
    /\ Len(emitted) = 1
    /\ buffer > 0

\* C30: in the scenario of speech without a pause the only flush is the one
\* of the window that brings speech_ms to MAX_SPEECH_MS; from then on the
\* second segment grows from an empty buffer and speech_ms from 0.
C30_LongSpeechScenario ==
    script.kind = "long" =>
        /\ ncalls * WINDOW_MS < MAX_SPEECH_MS => emitted = <<>>
        /\ ncalls * WINDOW_MS >= MAX_SPEECH_MS =>
            /\ emitted = <<MAX_SPEECH_MS \div WINDOW_MS>>
            /\ buffer = ncalls - emitted[1]
            /\ speech_ms = buffer * WINDOW_MS

\* the speech without a pause was fed to its end
C30_Witness ==
    /\ script.kind = "long"
    /\ Streamed
    /\ Len(emitted) = 1
    /\ speech_ms > 0

\* bytes of n windows in self.buffer: int16 samples
buffer_len(n) == n * WINDOW_SAMPLES * 2

\* C31: between the windows of feed, speech_ms is 32 for each 1024 bytes of
\* the buffer, whatever the VAD said of them, and 0 <= speech_ms <
\* MAX_SPEECH_MS.
C31_SpeechMsCountsBuffer ==
    seg = "feed" =>
        /\ speech_ms = WINDOW_MS * (buffer_len(buffer) \div 1024)
        /\ 0 <= speech_ms
        /\ speech_ms < MAX_SPEECH_MS

\* windows the VAD never took for speech are buffered and counted, up to the
\* last window before the ceiling
C31_Witness ==
    /\ seg = "feed"
    /\ ~vad.triggered
    /\ voice_event = "none"
    /\ buffer > 0
    /\ speech_ms = MAX_SPEECH_MS - WINDOW_MS

\* the batches of the log that hold item i
BatchesOf(i) ==
    {k \in 1..Len(dispatched) :
        \E m \in 1..Len(dispatched[k].ids) : dispatched[k].ids[m] = i}

\* C32: under a fair, never-cancelled worker every item put on the queue
\* comes to be dequeued and handed to inference, and at no time is an item
\* in two batches.
C32_EveryItemInOneBatch ==
    \A i \in 1..MaxItems :
        /\ [](Cardinality(BatchesOf(i)) <= 1)
        /\ (nextId > i) ~>
              (/\ i \notin Ids(transcription_queue)
               /\ Cardinality(BatchesOf(i)) = 1)

\* every item was put, the last of them waited in the queue while a batch was
\* gathered without it, and all are in a batch
C32_Witness ==
    /\ nextId > MaxItems
    /\ \A i \in 1..MaxItems : Cardinality(BatchesOf(i)) = 1
    /\ Len(dispatched) >= 2
    /\ pc = "get_first"

\* C33: when the worker has come through lines 69-75 for a batch whose
\* inference succeeded, no path of the batch is on disk, the paths producers
\* handed in as strings included; and the cleanup can always be taken,
\* whether the files are still there or not.
C33_SuccessfulBatchUnlinked ==
    /\ [][(pc = "notify" /\ pc' = "get_first") =>
              \A m \in 1..Len(batch) : batch[m].path \notin disk']_vars
    /\ []((pc = "notify" /\ dispatched[Len(dispatched)].ok) => ENABLED Notify)

\* a successful batch held the same path string twice, so that the second
\* unlink found the file gone, and the worker is back at the queue
C33_Witness ==
    /\ pc = "get_first"
    /\ notifies > 0
    /\ Len(batch) = 2
    /\ batch[1].path = batch[2].path
    /\ batch[1].path[1] = "path"
    /\ dispatched[Len(dispatched)].ok
    /\ dispatched[Len(dispatched)].ids = IdSeq(batch)
    /\ PathsOf(batch) \cap disk = {}

\* C34: when a chunker has returned for a file of a whole number of windows,
\* its chunks laid end to end are the samples of the file, each once and in
\* order.
C34_NoAudioLost ==
    (seg # "feed" /\ vpc = "returned" /\ reader.len > 0) =>
        chunks = <<<<0, reader.len>>>>

\* C35: no step of a segmenter writes a segment without a full window in it,
\* the last chunk of a chunker included, and no window of feed is followed by
\* more than one segment.
C35_NoEmptySegment ==
    /\ \A i \in 1..Len(emitted) : emitted[i] >= 1
    /\ seg = "feed" => Len(emitted) <= 1

\* in feed the end event came with the window that reached the ceiling, and
\* one segment was written
C35_Witness ==
    /\ seg = "feed"
    /\ voice_event = "end"
    /\ flushed * WINDOW_MS = MAX_SPEECH_MS
    /\ emitted = <<flushed>>

\* C36: when an error of the upload and conversion phase propagates to the
\* caller of transcribe_audio, tmp_path is gone, and so is mp3_tmp_path if it
\* was created.
C36_ErrorLeavesNoTempFile ==
    (req.pc = "raised" /\ req.at = "upload") =>
        /\ ~files.tmp
        /\ files.mp3 # "exists"

\* the application state a call of model.transcribe was made in
Ready(a) == a.model_loaded = "True" /\ a.asr_model = "model"

\* C37: model.transcribe was called only in an application state with
\* model_loaded True and asr_model set, and a request that came to the test
\* of line 298 in any other state ended with HTTP 503 without a call.
C37_ModelCalledOnlyWhenReady ==
    /\ req.called => Ready(req.seen)
    /\ (req.at = "model" /\ ~Ready(req.seen)) =>
            /\ req.pc = "raised"
            /\ req.status = 503
            /\ ~req.called

\* a request got 503 after the shutdown had deleted asr_model while
\* model_loaded was still True
C37_Witness ==
    /\ req.at = "model"
    /\ req.status = 503
    /\ life = "stopped"
    /\ app_state.model_loaded = "True"
    /\ app_state.asr_model = Absent

\* C38: once cmd has called configure_logging, the level of the root logger
\* is the one of the verbosity: ERROR for no -v, WARNING, INFO, and DEBUG for
\* three and more.
C38_VerbositySetsRootLevel ==
    cli.pc \in {"configured", "serving"} =>
        logging.root = (CASE cli.verbose = 0 -> "ERROR"
                      [] cli.verbose = 1 -> "WARNING"
                      [] cli.verbose = 2 -> "INFO"
                      [] OTHER -> "DEBUG")

====
